---------------------------- MODULE Spec2Model ----------------------------
(***************************************************************************)
(* Model of the two action-plugin adapters of agent-runtime:               *)
(*   ext/plugins/resend/run.py    (email, "resend")                        *)
(*   ext/plugins/tinyfish/run.py  (web automation, "tinyfish")             *)
(* One run of an adapter is one behaviour: stdin, the environment and the  *)
(* provider's answer are the inputs, stdout, stderr and the exit code the  *)
(* outputs.                                                                *)
(*                                                                         *)
(* Python strings are sequences of one-character strings.  A response body *)
(* can be far longer than anything worth enumerating, so the text of a     *)
(* response is a record [head, fill, tail] standing for                    *)
(*     head \o (fill copies of FillChar) \o tail.                          *)
(* Decoded JSON (and every Python value that comes out of json.loads) is a *)
(* record [t, b, n, s, items, m] of which only the field for the tag t is  *)
(* meaningful.                                                             *)
(***************************************************************************)
EXTENDS Integers, Sequences, FiniteSets, TLC

\* --------------------------------------------------------------- bounds
\* Longest recipient string enumerated for payload.to.
MaxLen == 2
\* How many bytes past MAX_BODY_BYTES the largest provider body runs.
MaxExtra == 1

\* ------------------------------------------------------------- constants
MAX_BODY_BYTES == 131072
CompactLimit == 1200

\* ------------------------------------------------------ Python strings
WS == {" ", "\t", "\n", "\r"}
FillChar == "x"

SetMin(S) == CHOOSE a \in S : \A b \in S : a <= b
SetMax(S) == CHOOSE a \in S : \A b \in S : a >= b

\* str.strip()
strip(s) ==
  LET idx == {i \in 1..Len(s) : s[i] \notin WS}
  IN IF idx = {} THEN <<>> ELSE SubSeq(s, SetMin(idx), SetMax(idx))

\* str.lstrip() and str.rstrip() (whitespace), used on the ends of a text
lstrip(s) ==
  LET idx == {i \in 1..Len(s) : s[i] \notin WS}
  IN IF idx = {} THEN <<>> ELSE SubSeq(s, SetMin(idx), Len(s))

rstrip(s) ==
  LET idx == {i \in 1..Len(s) : s[i] \notin WS}
  IN IF idx = {} THEN <<>> ELSE SubSeq(s, 1, SetMax(idx))

\* str.rstrip("/")
rstrip_slash(s) ==
  LET idx == {i \in 1..Len(s) : s[i] # "/"}
  IN IF idx = {} THEN <<>> ELSE SubSeq(s, 1, SetMax(idx))

Upper ==
  <<"A", "B", "C", "D", "E", "F", "G", "H", "I", "J", "K", "L", "M", "N", "O", "P", "Q", "R",
    "S", "T", "U", "V", "W", "X", "Y", "Z">>
Lower ==
  <<"a", "b", "c", "d", "e", "f", "g", "h", "i", "j", "k", "l", "m", "n", "o", "p", "q", "r",
    "s", "t", "u", "v", "w", "x", "y", "z">>

LowerChar(c) ==
  IF \E i \in 1..26 : Upper[i] = c THEN Lower[CHOOSE i \in 1..26 : Upper[i] = c] ELSE c

\* str.lower()
lower(s) == IF s = <<>> THEN <<>> ELSE [i \in 1..Len(s) |-> LowerChar(s[i])]

\* needle in haystack
Contains(haystack, needle) ==
  \E i \in 0..(Len(haystack) - Len(needle)) :
     SubSeq(haystack, i + 1, i + Len(needle)) = needle

\* " ".join(s.split()) of a string with no leading whitespace: every run of
\* whitespace becomes one space (a trailing run too; strip() removes it first
\* wherever the source calls this on a whole string).
SplitJoin(s) ==
  LET marked == [i \in 1..Len(s) |->
                   IF s[i] \notin WS THEN s[i]
                   ELSE IF i > 1 /\ s[i - 1] \notin WS THEN " " ELSE ""]
      Keep(c) == c # ""
  IN IF s = <<>> THEN <<>> ELSE SelectSeq(marked, Keep)

\* str.split(sep) for a one-character separator
RECURSIVE split(_, _)
split(s, sep) ==
  LET idx == {i \in 1..Len(s) : s[i] = sep}
  IN IF idx = {} THEN <<s>>
     ELSE <<SubSeq(s, 1, SetMin(idx) - 1)>>
            \o split(SubSeq(s, SetMin(idx) + 1, Len(s)), sep)

\* sep.join(items)
RECURSIVE join(_, _)
join(sep, items) ==
  IF items = <<>> THEN <<>>
  ELSE IF Len(items) = 1 THEN items[1]
  ELSE items[1] \o sep \o join(sep, Tail(items))

\* str(n) of an int
RECURSIVE Digits(_)
Digits(n) ==
  LET d == <<"0", "1", "2", "3", "4", "5", "6", "7", "8", "9">>
  IN IF n < 0 THEN <<"-">> \o Digits(0 - n)
     ELSE IF n < 10 THEN <<d[n + 1]>>
     ELSE Digits(n \div 10) \o <<d[(n % 10) + 1]>>

\* ------------------------------------------------------- Python values
EmptyMap == [k \in {} |-> 0]

JNull == [t |-> "null", b |-> FALSE, n |-> 0, s |-> <<>>, items |-> <<>>, m |-> EmptyMap]
JBool(v) == [t |-> "bool", b |-> v, n |-> 0, s |-> <<>>, items |-> <<>>, m |-> EmptyMap]
JNum(v) == [t |-> "num", b |-> FALSE, n |-> v, s |-> <<>>, items |-> <<>>, m |-> EmptyMap]
JStr(v) == [t |-> "str", b |-> FALSE, n |-> 0, s |-> v, items |-> <<>>, m |-> EmptyMap]
JList(v) == [t |-> "list", b |-> FALSE, n |-> 0, s |-> <<>>, items |-> v, m |-> EmptyMap]
JDict(v) == [t |-> "dict", b |-> FALSE, n |-> 0, s |-> <<>>, items |-> <<>>, m |-> v]

IsNone(v) == v.t = "null"
IsStr(v) == v.t = "str"
IsList(v) == v.t = "list"
IsDict(v) == v.t = "dict"
IsBool(v) == v.t = "bool"

\* Python truthiness (the `or` of main's payload and string fallbacks)
Truthy(v) ==
  CASE v.t = "null" -> FALSE
    [] v.t = "bool" -> v.b
    [] v.t = "num" -> v.n # 0
    [] v.t = "str" -> v.s # <<>>
    [] v.t = "list" -> v.items # <<>>
    [] OTHER -> DOMAIN v.m # {}

\* dict.get(key): None when the key is absent
Get(d, key) == IF key \in DOMAIN d.m THEN d.m[key] ELSE JNull

\* repr() of a list element; the model's lists hold strings, numbers, booleans
\* and None only.
Repr(v) ==
  CASE v.t = "str" -> <<"'">> \o v.s \o <<"'">>
    [] v.t = "num" -> Digits(v.n)
    [] v.t = "bool" -> IF v.b THEN <<"T", "r", "u", "e">> ELSE <<"F", "a", "l", "s", "e">>
    [] v.t = "null" -> <<"N", "o", "n", "e">>
    [] v.t = "list" -> <<"[", "]">>
    [] OTHER -> <<"{", "}">>

\* str(value).  A non-empty dict prints as "{" ... "}" around its items; the
\* model writes the items as one "~", which no caller looks into.
PyStr(v) ==
  CASE v.t = "str" -> v.s
    [] v.t = "num" -> Digits(v.n)
    [] v.t = "bool" -> IF v.b THEN <<"T", "r", "u", "e">> ELSE <<"F", "a", "l", "s", "e">>
    [] v.t = "null" -> <<"N", "o", "n", "e">>
    [] v.t = "list" ->
         IF v.items = <<>> THEN <<"[", "]">>
         ELSE <<"[">> \o join(<<",", " ">>, [i \in 1..Len(v.items) |-> Repr(v.items[i])])
                \o <<"]">>
    [] OTHER -> IF DOMAIN v.m = {} THEN <<"{", "}">> ELSE <<"{", "~", "}">>

\* ------------------------------------------------------ response text
\* head \o FillChar^fill \o tail; with fill = 0 the whole text is in head.
Text(s) == [head |-> s, fill |-> 0, tail |-> <<>>]
TextLen(t) == Len(t.head) + t.fill + Len(t.tail)
TextCanon(t) == IF t.fill = 0 THEN Text(t.head \o t.tail) ELSE t

\* the first n characters of a text
TextTake(t, n) ==
  IF n <= Len(t.head) THEN Text(SubSeq(t.head, 1, n))
  ELSE IF n <= Len(t.head) + t.fill
    THEN TextCanon([head |-> t.head, fill |-> n - Len(t.head), tail |-> <<>>])
  ELSE [head |-> t.head, fill |-> t.fill,
        tail |-> SubSeq(t.tail, 1, n - Len(t.head) - t.fill)]

TextAppend(t, s) ==
  IF t.fill = 0 THEN Text(t.head \o t.tail \o s)
  ELSE [head |-> t.head, fill |-> t.fill, tail |-> t.tail \o s]

\* how many line feeds a text holds
Newlines(t) ==
  Cardinality({i \in 1..Len(t.head) : t.head[i] = "\n"})
    + Cardinality({i \in 1..Len(t.tail) : t.tail[i] = "\n"})

\* str.strip() of a response text
text_strip(t) ==
  IF t.fill = 0 THEN Text(strip(t.head \o t.tail))
  ELSE [head |-> lstrip(t.head), fill |-> t.fill, tail |-> rstrip(t.tail)]

\* bytes.decode("utf-8", errors="replace") of what read(amt) returned: the
\* model's bodies are ASCII, one byte a character, so the first amt bytes are
\* the first amt characters.  amt < 0 is read() with no amount.
read(body, amt) ==
  IF amt < 0 \/ TextLen(body) <= amt THEN body ELSE TextTake(body, amt)

\* ---------------------------------------------------------------- JSON
\* The documents json.loads accepts among the texts of the model: text |-> value.
Q == "\""
ErrorObjText == <<"{", Q, "e", "r", "r", "o", "r", Q, ":", Q, "e", " ", " ", "r", Q, "}">>
ErrorNestedText ==
  <<"{", Q, "e", "r", "r", "o", "r", Q, ":", "{", Q, "m", "e", "s", "s", "a", "g", "e",
    Q, ":", Q, "n", Q, "}", "}">>
MessageObjText == <<"{", Q, "m", "e", "s", "s", "a", "g", "e", Q, ":", Q, "m", Q, "}">>
IdObjText == <<"{", Q, "i", "d", Q, ":", Q, "e", "m", Q, "}">>
RunIdObjText == <<"{", Q, "r", "u", "n", "_", "i", "d", Q, ":", Q, "r", "1", Q, "}">>
ResultObjText ==
  <<"{", Q, "r", "e", "s", "u", "l", "t", Q, ":", Q, "o", "k", Q, ",", Q, "r", "u", "n",
    Q, ":", "{", Q, "i", "d", Q, ":", "7", "}", "}">>
EmptyObjText == <<"{", "}">>
EmptyListText == <<"[", "]">>
NullText == <<"n", "u", "l", "l">>
NumberText == <<"4", "0", "4">>
StringText == <<Q, "s", Q>>
TrueText == <<"t", "r", "u", "e">>

JsonTable ==
  {[text |-> ErrorObjText, value |-> JDict([error |-> JStr(<<"e", " ", " ", "r">>)])],
   [text |-> ErrorNestedText,
    value |-> JDict([error |-> JDict([message |-> JStr(<<"n">>)])])],
   [text |-> MessageObjText, value |-> JDict([message |-> JStr(<<"m">>)])],
   [text |-> IdObjText, value |-> JDict([id |-> JStr(<<"e", "m">>)])],
   [text |-> RunIdObjText, value |-> JDict([run_id |-> JStr(<<"r", "1">>)])],
   [text |-> ResultObjText,
    value |-> JDict([result |-> JStr(<<"o", "k">>), run |-> JDict([id |-> JNum(7)])])],
   [text |-> EmptyObjText, value |-> JDict(EmptyMap)],
   [text |-> EmptyListText, value |-> JList(<<>>)],
   [text |-> NullText, value |-> JNull],
   [text |-> NumberText, value |-> JNum(404)],
   [text |-> StringText, value |-> JStr(<<"s">>)],
   [text |-> TrueText, value |-> JBool(TRUE)]}

\* json.loads(text): [ok |-> FALSE] stands for JSONDecodeError.  Whitespace
\* around a document is skipped; a text with a run of FillChar in it is none of
\* the table's documents.
json_loads(t) ==
  LET s == strip(t.head \o t.tail)
      hit == {d \in JsonTable : d.text = s}
  IN IF t.fill > 0 \/ hit = {} THEN [ok |-> FALSE, value |-> JNull]
     ELSE [ok |-> TRUE, value |-> (CHOOSE d \in hit : TRUE).value]

\* ------------------------------------------------------------ messages
\* A message is a sequence of parts: literal text of the source (lit) or a
\* computed text (text).
Lit(s) == [lit |-> s, text |-> Text(<<>>)]
Var(t) == [lit |-> "", text |-> t]
NL == Var(Text(<<"\n">>))

\* what the interpreter writes to stderr for an exception nothing catches
Traceback(exc) ==
  <<Lit("Traceback (most recent call last):"), NL, Lit("  File run.py, in main"), NL,
    Lit(exc)>>

RECURSIVE SumNewlines(_)
SumNewlines(msg) ==
  IF msg = <<>> THEN 0 ELSE Newlines(Head(msg).text) + SumNewlines(Tail(msg))

\* the lines a message takes once "\n" is put after it
LineCount(msg) == 1 + SumNewlines(msg)

\* --------------------------------------------- helpers of both adapters
\* trim (tinyfish) and str_or_empty (resend): None -> "", else str(value).strip()
trim(value) == IF IsNone(value) THEN <<>> ELSE strip(PyStr(value))

str_or_empty(value) == IF IsNone(value) THEN <<>> ELSE strip(PyStr(value))

\* map_lookup(values, *keys): the value of the first key present, else None
map_lookup(values, keys) ==
  LET present == {i \in 1..Len(keys) : keys[i] \in DOMAIN values.m}
  IN IF ~IsDict(values) \/ present = {} THEN JNull
     ELSE values.m[keys[SetMin(present)]]

\* dict with one key set
SetKey(m, key, v) == [k \in (DOMAIN m) \cup {key} |-> IF k = key THEN v ELSE m[k]]

\* ------------------------------------------------- tinyfish: functions
\* every run of whitespace of a stripped text -> one space
text_collapse(t) ==
  IF t.fill = 0 THEN Text(SplitJoin(t.head \o t.tail))
  ELSE LET h == SplitJoin(t.head \o <<FillChar>>)
           l == SplitJoin(<<FillChar>> \o t.tail)
       IN [head |-> SubSeq(h, 1, Len(h) - 1), fill |-> t.fill, tail |-> Tail(l)]

compact(value) ==
  LET text == text_collapse(text_strip(value))
  IN IF TextLen(text) <= CompactLimit THEN text
     ELSE TextAppend(TextTake(text, CompactLimit), <<".", ".", ".">>)

map_string(values, key) == IF ~IsDict(values) THEN <<>> ELSE trim(Get(values, key))

nested_map_string(values, parent, child) ==
  IF ~IsDict(values) THEN <<>>
  ELSE IF ~IsDict(Get(values, parent)) THEN <<>>
  ELSE map_string(Get(values, parent), child)

\* first_non_empty(*values): the first value that is not blank, stripped
first_non_empty(values) ==
  LET good == {i \in 1..Len(values) : strip(values[i]) # <<>>}
  IN IF good = {} THEN <<>> ELSE strip(values[SetMin(good)])

\* [raised |-> TRUE]: decoded.get fails with AttributeError, decoded being no dict
parse_error_message(raw) ==
  LET text == text_strip(raw)
      loaded == json_loads(text)
      decoded == loaded.value
      error_value == Get(decoded, "error")
      nested == map_string(error_value, "message")
      Ok(parts) == [raised |-> FALSE, parts |-> parts]
  IN IF TextLen(text) = 0 THEN Ok(<<Lit("no response body")>>)
     ELSE IF ~loaded.ok THEN Ok(<<Var(compact(text))>>)
     ELSE IF ~IsDict(decoded) THEN [raised |-> TRUE, parts |-> <<>>]
     ELSE IF IsStr(error_value) /\ trim(error_value) # <<>>
       THEN Ok(<<Var(compact(Text(error_value.s)))>>)
     ELSE IF IsDict(error_value) /\ nested # <<>> THEN Ok(<<Var(compact(Text(nested)))>>)
     ELSE Ok(<<Var(compact(Text(first_non_empty(
                 <<map_string(decoded, "message"), map_string(decoded, "detail"),
                   text.head>>))))>>)

\* None (JNull) when the text is no JSON
parse_json_or_none(raw) == IF json_loads(raw).ok THEN json_loads(raw).value ELSE JNull

Sentinel == <<"t", "i", "n", "y", "f", "i", "s", "h", "_", "a", "s", "y", "n", "c">>
AsyncWord == <<"a", "s", "y", "n", "c">>

\* is_async_action taking any truthy payload "async" for the flag
is_async_action_truthy(action_type, payload) ==
  IF lower(trim(JStr(action_type))) = Sentinel THEN TRUE
  ELSE IF Truthy(Get(payload, "async")) THEN TRUE
  ELSE lower(trim(Get(payload, "mode"))) = AsyncWord

is_async_action(action_type, payload) ==
  IF lower(trim(JStr(action_type))) = Sentinel THEN TRUE
  ELSE IF IsBool(Get(payload, "async")) /\ Get(payload, "async").b THEN TRUE
  ELSE lower(trim(Get(payload, "mode"))) = AsyncWord

TargetLabel == <<"\n", "T", "a", "r", "g", "e", "t", " ", "U", "R", "L", ":", " ">>

\* resolve_goal looking for the target in the goal without lower()
resolve_goal_case_sensitive(summary, action_target, payload) ==
  LET g1 == trim(Get(payload, "goal"))
      g2 == IF g1 = <<>> THEN trim(Get(payload, "task")) ELSE g1
      goal == IF g2 = <<>> THEN trim(JStr(summary)) ELSE g2
      target == trim(JStr(action_target))
  IN IF goal # <<>> /\ target # <<>> /\ ~Contains(goal, target)
     THEN strip(goal \o TargetLabel \o target)
     ELSE strip(goal)

resolve_goal(summary, action_target, payload) ==
  LET g1 == trim(Get(payload, "goal"))
      g2 == IF g1 = <<>> THEN trim(Get(payload, "task")) ELSE g1
      goal == IF g2 = <<>> THEN trim(JStr(summary)) ELSE g2
      target == trim(JStr(action_target))
  IN IF goal # <<>> /\ target # <<>> /\ ~Contains(lower(goal), lower(target))
     THEN strip(goal \o TargetLabel \o target)
     ELSE strip(goal)

resolve_url(action_target, payload, request_body) ==
  IF map_string(request_body, "url") # <<>> THEN map_string(request_body, "url")
  ELSE IF trim(Get(payload, "url")) # <<>> THEN trim(Get(payload, "url"))
  ELSE trim(JStr(action_target))

\* [raised |-> TRUE, error |-> text of the ValueError] or the request body
build_request(summary, action_target, payload) ==
  LET request_body == IF ~IsDict(Get(payload, "request")) THEN JDict(EmptyMap)
                      ELSE Get(payload, "request")
      goal == map_string(request_body, "goal")
      resolved == resolve_goal(summary, action_target, payload)
      with_goal == IF goal = <<>> THEN JDict(SetKey(request_body.m, "goal", JStr(resolved)))
                   ELSE request_body
      url == resolve_url(action_target, payload, with_goal)
  IN IF goal = <<>> /\ resolved = <<>>
       THEN [raised |-> TRUE,
             error |-> "tinyfish action requires payload.goal, payload.task, or summary",
             body |-> JNull]
     ELSE IF url = <<>>
       THEN [raised |-> TRUE,
             error |-> "tinyfish action requires payload.url, payload.request.url, or action_target",
             body |-> JNull]
     ELSE [raised |-> FALSE, error |-> "",
           body |-> JDict(SetKey(with_goal.m, "url", JStr(url)))]

summarize_response(async_mode, raw) ==
  LET text == text_strip(raw)
      decoded == parse_json_or_none(text)
      run_id == first_non_empty(<<map_string(decoded, "run_id"),
                                  nested_map_string(decoded, "data", "run_id"),
                                  nested_map_string(decoded, "run", "id")>>)
      output == first_non_empty(<<map_string(decoded, "result"),
                                  map_string(decoded, "output"),
                                  map_string(decoded, "message"),
                                  nested_map_string(decoded, "data", "result"),
                                  nested_map_string(decoded, "data", "output")>>)
  IN IF TextLen(text) = 0
       THEN IF async_mode THEN <<Lit("tinyfish run queued")>>
            ELSE <<Lit("tinyfish run completed")>>
     ELSE IF ~IsDict(decoded)
       THEN <<Lit("tinyfish request completed: "), Var(compact(text))>>
     ELSE IF async_mode
       THEN IF run_id # <<>>
              THEN <<Lit("tinyfish run queued with run_id "), Var(Text(run_id))>>
            ELSE <<Lit("tinyfish run queued")>>
     ELSE IF output # <<>>
       THEN IF run_id # <<>>
              THEN <<Lit("tinyfish run completed ("), Var(Text(run_id)), Lit("): "),
                     Var(compact(Text(output)))>>
            ELSE <<Lit("tinyfish run completed: "), Var(compact(Text(output)))>>
     ELSE IF run_id # <<>>
       THEN <<Lit("tinyfish run completed with run_id "), Var(Text(run_id))>>
     ELSE <<Lit("tinyfish run completed")>>

\* --------------------------------------------------- resend: functions
\* normalize_recipients keeping the blank segments of a string
normalize_recipients_keeps_blanks(value) ==
  LET NotEmpty(x) == x # <<>>
      segs == split(value.s, ",")
      strs == [i \in 1..Len(value.items) |-> str_or_empty(value.items[i])]
  IN IF IsNone(value) THEN <<>>
     ELSE IF IsStr(value) THEN [i \in 1..Len(segs) |-> strip(segs[i])]
     ELSE IF IsList(value)
       THEN IF value.items = <<>> THEN <<>> ELSE SelectSeq(strs, NotEmpty)
     ELSE <<>>

normalize_recipients(value) ==
  LET NotEmpty(x) == x # <<>>
      segs == split(value.s, ",")
      strs == [i \in 1..Len(value.items) |-> str_or_empty(value.items[i])]
  IN IF IsNone(value) THEN <<>>
     ELSE IF IsStr(value)
       THEN SelectSeq([i \in 1..Len(segs) |-> strip(segs[i])], NotEmpty)
     ELSE IF IsList(value)
       THEN IF value.items = <<>> THEN <<>> ELSE SelectSeq(strs, NotEmpty)
     ELSE <<>>

\* the text parse_message takes from the value under one key, "" when none
message_candidate(decoded, key) ==
  LET value == Get(decoded, key)
      nested == Get(value, "message")
  IN IF IsStr(value) /\ strip(value.s) # <<>> THEN strip(value.s)
     ELSE IF IsDict(value) /\ IsStr(nested) /\ strip(nested.s) # <<>> THEN strip(nested.s)
     ELSE <<>>

parse_message(response_body) ==
  LET loaded == json_loads(response_body)
      decoded == loaded.value
      keys == <<"message", "error", "detail">>
      hits == {i \in 1..3 : message_candidate(decoded, keys[i]) # <<>>}
  IN IF TextLen(response_body) = 0 THEN Text(<<>>)
     ELSE IF ~loaded.ok THEN text_strip(response_body)
     ELSE IF IsDict(decoded) /\ hits # {}
       THEN Text(message_candidate(decoded, keys[SetMin(hits)]))
     ELSE text_strip(response_body)

\* --------------------------------------------------------------- inputs
\* A field a JSON object may lack: Obj leaves out the keys given as Absent.
Absent == [t |-> "absent", b |-> FALSE, n |-> 0, s |-> <<>>, items |-> <<>>, m |-> EmptyMap]
Obj(fields) == JDict([k \in {x \in DOMAIN fields : fields[x] # Absent} |-> fields[k]])

SeqsUpTo(alphabet, n) == UNION {[1..k -> alphabet] : k \in 0..n}

\* payload.to: every string of recipients, commas and blanks up to MaxLen, and
\* the other JSON shapes
ToInputs ==
  {Absent, JList(<<>>), JList(<<JStr(<<"a">>), JStr(<<" ">>)>>), JList(<<JNull, JStr(<<>>)>>),
   JList(<<JNum(0)>>), JNum(5), JDict(EmptyMap)}
    \cup {JStr(s) : s \in SeqsUpTo({"a", " ", ","}, MaxLen)}

\* the rest of a payload: from, and <<text, html, subject, tags>>
BodyInputs ==
  {<<Absent, Absent, Absent, Absent>>,
   <<JStr(<<"t">>), Absent, JStr(<<"s">>), JList(<<>>)>>,
   <<JStr(<<" ">>), JStr(<<"h">>), Absent, JStr(<<"t">>)>>}

ResendPayload(to, from, b) ==
  Obj([to |-> to, from |-> from, text |-> b[1], html |-> b[2], subject |-> b[3],
       tags |-> b[4]])

ResendApproval(p, tg, sm) == Obj([payload |-> p, action_target |-> tg, action_summary |-> sm])

\* every payload.to with a few of the other fields, and every combination of
\* the other fields with a few payload.to
ResendApprovals ==
  {ResendApproval(ResendPayload(to, c[1], c[2]), c[3], c[4]) :
     to \in ToInputs,
     c \in {<<JStr(<<" ", "f">>), <<JStr(<<"t">>), Absent, JStr(<<"s">>), JList(<<>>)>>,
              Absent, Absent>>,
            <<JStr(<<" ", "f">>), <<JStr(<<"t">>), Absent, JStr(<<"s">>), JList(<<>>)>>,
              JStr(<<"b">>), Absent>>,
            <<Absent, <<Absent, Absent, Absent, Absent>>, JStr(<<",", " ">>),
              JStr(<<"s", "m">>)>>}}
    \cup {ResendApproval(ResendPayload(to, from, b), tg, sm) :
            to \in {Absent, JStr(<<"a", ",">>)},
            from \in {Absent, JStr(<<" ", "f">>), JStr(<<" ">>)},
            b \in BodyInputs,
            tg \in {Absent, JStr(<<"b">>), JStr(<<",", " ">>)},
            sm \in {Absent, JStr(<<"s", "m">>)}}
    \cup {JDict([Payload |-> Obj([to |-> JStr(<<"a">>), text |-> JStr(<<"t">>),
                                  from |-> JStr(<<"f">>)])]),
          JDict([payload |-> JStr(<<"p">>)]),
          JDict([payload |-> JList(<<>>), ActionTarget |-> JStr(<<"b">>),
                 ActionSummary |-> JStr(<<"s", "m">>)])}

\* the three triggers of async mode, each present, absent and nearly present
AsyncApprovals ==
  {Obj([action_type |-> ty, action_target |-> JStr(<<"u">>),
        payload |-> Obj([async |-> a, mode |-> mo, goal |-> JStr(<<"g">>)])]) :
     ty \in {Absent, JStr(Sentinel), JStr(<<"t">>),
             JStr(<<" ", "T", "i", "n", "y", "F", "i", "s", "h", "_", "A", "S", "Y", "N", "C",
                    "\n">>)},
     a \in {Absent, JBool(TRUE), JBool(FALSE), JStr(<<"t", "r", "u", "e">>), JNum(1)},
     mo \in {Absent, JStr(AsyncWord), JStr(<<" ", "A", "s", "y", "n", "c">>),
             JStr(<<"s", "y", "n", "c">>)}}

RequestInputs ==
  {Absent, JStr(<<"r">>), JDict([goal |-> JStr(<<"r", "g">>)]),
   JDict([goal |-> JList(<<>>), url |-> JStr(<<" ">>)]),
   JDict([url |-> JStr(<<"r", "u">>), browser |-> JStr(<<"c">>)])}

GoalApproval(g, ta, sm, tg, u, rq) ==
  Obj([action_target |-> tg, action_summary |-> sm,
       payload |-> Obj([goal |-> g, task |-> ta, url |-> u, request |-> rq])])

\* every combination of the goal's sources with no nested request, and every
\* nested request with a few of them
GoalApprovals ==
  {GoalApproval(g, ta, sm, tg, u, Absent) :
     g \in {Absent, JStr(<<" ">>), JStr(<<"g">>), JStr(<<"g", " ", "b">>), JNum(0)},
     ta \in {Absent, JStr(<<"t">>)},
     sm \in {Absent, JStr(<<" ", "s">>)},
     tg \in {Absent, JStr(<<"b">>), JStr(<<"B", " ">>)},
     u \in {Absent, JStr(<<"u">>)}}
    \cup {GoalApproval(c[1], Absent, c[2], c[3], Absent, rq) :
            rq \in RequestInputs,
            c \in {<<Absent, Absent, Absent>>,
                   <<JStr(<<"g">>), Absent, JStr(<<"b">>)>>,
                   <<Absent, JStr(<<" ", "s">>), JStr(<<"b">>)>>}}

TinyfishApprovals ==
  AsyncApprovals \cup GoalApprovals
    \cup {JDict([payload |-> JNum(7)]),
          JDict([Payload |-> JDict([task |-> JStr(<<"t">>), url |-> JStr(<<"u">>)]),
                 ActionType |-> JStr(Sentinel)])}

\* stdin: blank text, text that is no JSON, or a JSON document (doc)
StdinInputs(approvals) ==
  {[raw |-> "blank", doc |-> JNull], [raw |-> "garbage", doc |-> JNull],
   [raw |-> "json", doc |-> JList(<<>>)], [raw |-> "json", doc |-> JStr(<<"s">>)],
   [raw |-> "json", doc |-> JDict(EmptyMap)],
   [raw |-> "json", doc |-> JDict([action_approval |-> JList(<<>>)])]}
    \cup {[raw |-> "json", doc |-> JDict([action_approval |-> a])] : a \in approvals}

\* os.environ.get: None for a variable that is not set
KeyInputs == {JNull, JStr(<<" ">>), JStr(<<"k">>)}
FromInputs == {JNull, JStr(<<"e">>)}
\* <<base url, timeout>>: neither set, both set, a base with no scheme, a
\* timeout that is no number
ConfigInputs ==
  {<<JNull, JNull>>,
   <<JStr(<<"h", ":", "/", "/", "p", "/", "/">>), JStr(<<"2", ".", "5">>)>>,
   <<JStr(<<"p">>), JNull>>,
   <<JNull, JStr(<<"a">>)>>}

\* the provider's bodies: JSON of every shape, text that is no JSON (with runs
\* of whitespace, cut-off JSON), and texts longer than the limits
ResponseBodies ==
  {Text(<<>>), Text(<<" ", "\n">>), Text(ErrorObjText), Text(ErrorNestedText),
   Text(MessageObjText), Text(IdObjText), Text(RunIdObjText), Text(ResultObjText),
   Text(EmptyObjText), Text(EmptyListText), Text(NullText), Text(NumberText),
   Text(StringText), Text(TrueText),
   Text(<<"{", Q, "e">>), Text(<<" ", "o", " ", "\n", " ", "p", "\t", "s", " ">>),
   [head |-> <<>>, fill |-> 10000, tail |-> <<>>],
   [head |-> <<"o", " ", " ">>, fill |-> CompactLimit - 2, tail |-> <<>>],
   [head |-> <<"o", " ", " ">>, fill |-> CompactLimit - 1, tail |-> <<>>]}
    \cup {[head |-> <<"{">>, fill |-> MAX_BODY_BYTES - 1 + k, tail |-> <<>>] : k \in 0..MaxExtra}

Statuses == {199, 200, 299, 300, 500}
Is2xx(status) == status >= 200 /\ status < 300

\* what urlopen does: returns a response, raises HTTPError (urllib raises it
\* for the statuses outside [200,300) only), or raises another error
\* (URLError, a timeout)
DispatchResults ==
  {[kind |-> "response", status |-> st, body |-> b] : st \in Statuses, b \in ResponseBodies}
    \cup {[kind |-> "http_error", status |-> st, body |-> b] :
            st \in {c \in Statuses : ~Is2xx(c)}, b \in ResponseBodies}
    \cup {[kind |-> "transport", status |-> 0, body |-> Text(<<>>)]}

\* ---------------------------------------------------------------- state
VARIABLES
  adapter,        \* "resend" or "tinyfish": which run.py runs
  pc,             \* where main is
  stdin,          \* what sys.stdin.read() returns
  env,            \* the environment variables read so far, name |-> value
  approval,       \* request["action_approval"]
  payload,        \* the approval's payload
  action,         \* [type, target, summary]: the approval's trimmed strings
  norm,           \* resend: [to, from, subject, text, html]
  async_mode,     \* tinyfish: is_async_action's answer
  endpoint,       \* tinyfish: the path chosen from async_mode
  body,           \* the request body built
  request,        \* the urllib Request: [url, body]
  sent,           \* the requests handed to urlopen, in order
  response,       \* what urlopen did: [kind, status, body]
  response_text,  \* what was read and decoded from the response
  bytes_read,     \* how many bytes of the response body were read
  stdout,         \* the objects printed, in order
  stderr,         \* the messages written to stderr, in order
  exit_code       \* the process's exit status, -1 while it runs

vars == <<adapter, pc, stdin, env, approval, payload, action, norm, async_mode, endpoint,
          body, request, sent, response, response_text, bytes_read, stdout, stderr,
          exit_code>>

NoAction == [type |-> <<>>, target |-> <<>>, summary |-> <<>>]
NoNorm == [to |-> <<>>, from |-> <<>>, subject |-> <<>>, text |-> <<>>, html |-> <<>>]
NoRequest == [url |-> <<>>, body |-> JNull]
NoResponse == [kind |-> "none", status |-> 0, body |-> Text(<<>>)]

Init ==
  /\ adapter \in {"resend", "tinyfish"}
  /\ pc = "parse"
  /\ stdin \in StdinInputs(IF adapter = "resend" THEN ResendApprovals ELSE TinyfishApprovals)
  /\ env = EmptyMap
  /\ approval = JNull
  /\ payload = JNull
  /\ action = NoAction
  /\ norm = NoNorm
  /\ async_mode = FALSE
  /\ endpoint = <<>>
  /\ body = JNull
  /\ request = NoRequest
  /\ sent = <<>>
  /\ response = NoResponse
  /\ response_text = Text(<<>>)
  /\ bytes_read = 0
  /\ stdout = <<>>
  /\ stderr = <<>>
  /\ exit_code = -1

\* fail(message): one write to stderr, and main returns 1.  message.strip()
\* changes none of main's messages: each starts with a word and ends with
\* literal text or with text already stripped.
fail(message) ==
  /\ stderr' = Append(stderr, message)
  /\ exit_code' = 1
  /\ pc' = "done"
  /\ stdout' = stdout

\* an exception main does not catch: the interpreter prints the traceback and
\* the process exits with status 1
Uncaught(exc) ==
  /\ stderr' = Append(stderr, Traceback(exc))
  /\ exit_code' = 1
  /\ pc' = "done"
  /\ stdout' = stdout

\* print(json.dumps({...})) and return 0
succeed(message, plugin) ==
  /\ stdout' = Append(stdout, [message |-> message, plugin |-> plugin])
  /\ exit_code' = 0
  /\ pc' = "done"
  /\ stderr' = stderr

Continue(next) ==
  /\ pc' = next
  /\ UNCHANGED <<stdout, stderr, exit_code>>

\* float(text) accepts the model's timeouts that are digits around one point
IsFloatLiteral(s) ==
  /\ s # <<>>
  /\ \A i \in 1..Len(s) : s[i] \in {"0", "1", "2", "3", "4", "5", "6", "7", "8", "9", "."}
  /\ Cardinality({i \in 1..Len(s) : s[i] = "."}) <= 1
  /\ \E i \in 1..Len(s) : s[i] # "."

\* urllib.request.Request(url) raises ValueError("unknown url type") for a url
\* with no scheme before its first ":" and "/"
HasScheme(url) ==
  \E i \in 2..Len(url) : url[i] = ":" /\ \A j \in 1..(i - 1) : url[j] \notin {":", "/"}

\* ------------------------------------------------- main: stdin to payload
\* The two mains read stdin alike but for the plugin's name in the messages.
ParseInput(name) ==
  LET appr == Get(stdin.doc, "action_approval")
      looked == map_lookup(appr, <<"payload", "Payload">>)
      pl == IF Truthy(looked) THEN looked ELSE JDict(EmptyMap)
      Named(what) == Lit(name \o " plugin " \o what)
  IN /\ pc = "parse"
     /\ IF stdin.raw = "blank"
          THEN fail(<<Named("expected request JSON on stdin")>>)
                 /\ UNCHANGED <<approval, payload>>
        ELSE IF stdin.raw = "garbage"
          THEN fail(<<Named("invalid stdin JSON: "), Lit("Expecting value")>>)
                 /\ UNCHANGED <<approval, payload>>
        ELSE IF ~IsDict(stdin.doc)
          THEN Uncaught("AttributeError: object has no attribute 'get'")
                 /\ UNCHANGED <<approval, payload>>
        ELSE IF ~IsDict(appr)
          THEN fail(<<Named("missing action_approval object")>>)
                 /\ UNCHANGED <<approval, payload>>
        ELSE IF ~IsDict(pl)
          THEN fail(<<Named("payload must be a JSON object")>>)
                 /\ approval' = appr /\ UNCHANGED payload
        ELSE Continue("normalize") /\ approval' = appr /\ payload' = pl
     /\ UNCHANGED <<adapter, stdin, env, action, norm, async_mode, endpoint, body, request,
                    sent, response, response_text, bytes_read>>

\* the approval's strings, by either spelling of the key
ActionStrings ==
  [type |-> trim(map_lookup(approval, <<"action_type", "ActionType">>)),
   target |-> trim(map_lookup(approval, <<"action_target", "ActionTarget">>)),
   summary |-> trim(map_lookup(approval, <<"action_summary", "ActionSummary">>))]

JStrs(strs) == IF strs = <<>> THEN <<>> ELSE [i \in 1..Len(strs) |-> JStr(strs[i])]

\* ---------------------------------------------------------- resend: main
ResendParse == adapter = "resend" /\ ParseInput("resend")

DefaultSubject ==
  <<"M", "e", "s", "s", "a", "g", "e", " ", "f", "r", "o", "m", " ", "a", "g", "e", "n", "t",
    "-", "r", "u", "n", "t", "i", "m", "e">>

\* to_values of lines 79-81
ResendRecipients(target) ==
  LET first == normalize_recipients(Get(payload, "to"))
  IN IF first = <<>> /\ target # <<>> THEN normalize_recipients(JStr(target)) ELSE first

\* lines 76-95: RESEND_FROM is read only when payload.from is blank
ResendNormalize ==
  LET a == [ActionStrings EXCEPT !.type = <<>>]
      to_values == ResendRecipients(a.target)
      payload_from == str_or_empty(Get(payload, "from"))
      reads_env == to_values # <<>> /\ payload_from = <<>>
      payload_subject == str_or_empty(Get(payload, "subject"))
      subject == IF payload_subject # <<>> THEN payload_subject
                 ELSE IF a.summary # <<>> THEN a.summary ELSE DefaultSubject
      html == str_or_empty(Get(payload, "html"))
      payload_text == str_or_empty(Get(payload, "text"))
      text == IF payload_text = <<>> /\ html = <<>> THEN a.summary ELSE payload_text
  IN /\ adapter = "resend" /\ pc = "normalize"
     /\ action' = a
     /\ \E resend_from \in IF reads_env THEN FromInputs ELSE {JNull} :
          LET from_value == IF payload_from # <<>> THEN payload_from
                            ELSE str_or_empty(resend_from)
          IN /\ env' = IF reads_env THEN SetKey(env, "RESEND_FROM", resend_from) ELSE env
             /\ IF to_values = <<>>
                  THEN fail(<<Lit("resend_email requires payload.to or action target recipient email")>>)
                         /\ UNCHANGED norm
                ELSE IF from_value = <<>>
                  THEN fail(<<Lit("resend_email requires payload.from or RESEND_FROM env var")>>)
                         /\ UNCHANGED norm
                ELSE IF text = <<>> /\ html = <<>>
                  THEN fail(<<Lit("resend_email requires payload.text or payload.html (or non-empty summary)")>>)
                         /\ UNCHANGED norm
                ELSE /\ Continue("build")
                     /\ norm' = [to |-> to_values, from |-> from_value, subject |-> subject,
                                 text |-> text, html |-> html]
     /\ UNCHANGED <<adapter, stdin, approval, payload, async_mode, endpoint, body, request,
                    sent, response, response_text, bytes_read>>

\* lines 97-128: the request body
ResendBody ==
  LET cc_values == normalize_recipients(Get(payload, "cc"))
      bcc_values == normalize_recipients(Get(payload, "bcc"))
      reply_to == Get(payload, "reply_to")
      tags == Get(payload, "tags")
      headers == Get(payload, "headers")
  IN Obj([from |-> JStr(norm.from),
          to |-> JList(JStrs(norm.to)),
          subject |-> JStr(norm.subject),
          text |-> IF norm.text # <<>> THEN JStr(norm.text) ELSE Absent,
          html |-> IF norm.html # <<>> THEN JStr(norm.html) ELSE Absent,
          cc |-> IF cc_values # <<>> THEN JList(JStrs(cc_values)) ELSE Absent,
          bcc |-> IF bcc_values # <<>> THEN JList(JStrs(bcc_values)) ELSE Absent,
          reply_to |-> IF IsStr(reply_to) /\ strip(reply_to.s) # <<>>
                         THEN JStr(strip(reply_to.s))
                       ELSE IF IsList(reply_to) /\ normalize_recipients(reply_to) # <<>>
                         THEN JList(JStrs(normalize_recipients(reply_to)))
                       ELSE Absent,
          tags |-> IF IsList(tags) THEN tags ELSE Absent,
          headers |-> IF IsDict(headers) THEN headers ELSE Absent])

ResendBuild ==
  /\ adapter = "resend" /\ pc = "build"
  /\ body' = ResendBody
  /\ Continue("configure")
  /\ UNCHANGED <<adapter, stdin, env, approval, payload, action, norm, async_mode, endpoint,
                 request, sent, response, response_text, bytes_read>>

ResendDefaultBase ==
  <<"h", "t", "t", "p", "s", ":", "/", "/", "a", "p", "i", ".", "r", "e", "s", "e", "n", "d",
    ".", "c", "o", "m">>

\* ResendConfigure handing the request to urlopen before it looks for the key
ResendConfigureSendsFirst ==
  /\ adapter = "resend" /\ pc = "configure"
  /\ \E key \in KeyInputs :
       LET req == [url |-> ResendDefaultBase \o <<"/", "e", "m", "a", "i", "l", "s">>,
                   body |-> body]
       IN /\ env' = SetKey(env, "RESEND_API_KEY", key)
          /\ request' = req
          /\ sent' = Append(sent, req)
          /\ IF str_or_empty(key) = <<>>
               THEN fail(<<Lit("resend plugin missing RESEND_API_KEY")>>)
             ELSE Continue("classify")
  /\ UNCHANGED <<adapter, stdin, approval, payload, action, norm, async_mode, endpoint, body,
                 response, response_text, bytes_read>>

\* lines 130-148: the key, the endpoint, the timeout, the Request.  The base
\* and the timeout are read only once the key is there.
ResendConfigure ==
  /\ adapter = "resend" /\ pc = "configure"
  /\ \E key \in KeyInputs :
       IF str_or_empty(key) = <<>>
         THEN /\ env' = SetKey(env, "RESEND_API_KEY", key)
              /\ fail(<<Lit("resend plugin missing RESEND_API_KEY")>>)
              /\ UNCHANGED request
       ELSE \E config \in ConfigInputs :
         LET base == config[1]
             timeout == config[2]
             b == IF str_or_empty(base) # <<>> THEN str_or_empty(base) ELSE ResendDefaultBase
             url == rstrip_slash(b) \o <<"/", "e", "m", "a", "i", "l", "s">>
         IN /\ env' = SetKey(SetKey(SetKey(env, "RESEND_API_KEY", key),
                                    "RESEND_API_BASE", base), "RESEND_TIMEOUT_SEC", timeout)
            /\ IF str_or_empty(timeout) # <<>> /\ ~IsFloatLiteral(str_or_empty(timeout))
                 THEN Uncaught("ValueError: could not convert string to float")
                        /\ UNCHANGED request
               ELSE IF ~HasScheme(url)
                 THEN Uncaught("ValueError: unknown url type") /\ UNCHANGED request
               ELSE Continue("dispatch") /\ request' = [url |-> url, body |-> body]
  /\ UNCHANGED <<adapter, stdin, approval, payload, action, norm, async_mode, endpoint, body,
                 sent, response, response_text, bytes_read>>

\* lines 150-159: urlopen, and read() of the whole body
ResendDispatch ==
  /\ adapter = "resend" /\ pc = "dispatch"
  /\ sent' = Append(sent, request)
  /\ \E r \in DispatchResults :
       LET got == IF r.kind = "transport" THEN Text(<<>>) ELSE read(r.body, -1)
           code == Var(Text(Digits(r.status)))
           message == IF TextLen(parse_message(got)) # 0 THEN <<Var(parse_message(got))>>
                      ELSE <<Lit("HTTP "), code>>
       IN /\ response' = r
          /\ bytes_read' = TextLen(got)
          /\ response_text' = got
          /\ IF r.kind = "http_error"
               THEN fail(<<Lit("resend request failed: status="), code, Lit(" message=")>>
                           \o message)
             ELSE IF r.kind = "transport"
               THEN fail(<<Lit("resend request failed: "), Lit("<urlopen error>")>>)
             ELSE Continue("classify")
  /\ UNCHANGED <<adapter, stdin, env, approval, payload, action, norm, async_mode, endpoint,
                 body, request>>

\* lines 161-162
ResendClassify ==
  /\ adapter = "resend" /\ pc = "classify"
  /\ IF response.status < 200 \/ response.status >= 300
       THEN fail(<<Lit("resend request failed: unexpected status "),
                   Var(Text(Digits(response.status)))>>)
     ELSE Continue("emit")
  /\ UNCHANGED <<adapter, stdin, env, approval, payload, action, norm, async_mode, endpoint,
                 body, request, sent, response, response_text, bytes_read>>

\* lines 164-178
ResendEmit ==
  LET loaded == json_loads(response_text)
      email_id == IF TextLen(response_text) # 0 /\ loaded.ok /\ IsDict(loaded.value)
                    THEN str_or_empty(Get(loaded.value, "id"))
                  ELSE <<>>
      recipients == join(<<",", " ">>, norm.to)
      sent_to == <<Lit("resend email sent to "), Var(Text(recipients))>>
  IN /\ adapter = "resend" /\ pc = "emit"
     /\ succeed(IF email_id # <<>>
                  THEN sent_to \o <<Lit(" (id: "), Var(Text(email_id)), Lit(")")>>
                ELSE sent_to,
                "external_resend_email")
     /\ UNCHANGED <<adapter, stdin, env, approval, payload, action, norm, async_mode, endpoint,
                    body, request, sent, response, response_text, bytes_read>>

\* -------------------------------------------------------- tinyfish: main
TinyfishParse == adapter = "tinyfish" /\ ParseInput("tinyfish")

RunPath ==
  <<"/", "v", "1", "/", "a", "u", "t", "o", "m", "a", "t", "i", "o", "n", "/", "r", "u", "n">>
RunAsyncPath == RunPath \o <<"-", "a", "s", "y", "n", "c">>

\* lines 198-203
TinyfishNormalize ==
  /\ adapter = "tinyfish" /\ pc = "normalize"
  /\ action' = ActionStrings
  /\ async_mode' = is_async_action(ActionStrings.type, payload)
  /\ endpoint' = IF is_async_action(ActionStrings.type, payload) THEN RunAsyncPath ELSE RunPath
  /\ Continue("build")
  /\ UNCHANGED <<adapter, stdin, env, approval, payload, norm, body, request, sent, response,
                 response_text, bytes_read>>

\* lines 205-208
TinyfishBuild ==
  LET built == build_request(action.summary, action.target, payload)
  IN /\ adapter = "tinyfish" /\ pc = "build"
     /\ IF built.raised THEN fail(<<Lit(built.error)>>) /\ UNCHANGED body
        ELSE Continue("configure") /\ body' = built.body
     /\ UNCHANGED <<adapter, stdin, env, approval, payload, action, norm, async_mode,
                    endpoint, request, sent, response, response_text, bytes_read>>

TinyfishDefaultBase ==
  <<"h", "t", "t", "p", "s", ":", "/", "/", "a", "g", "e", "n", "t", ".", "t", "i", "n", "y",
    "f", "i", "s", "h", ".", "a", "i">>

\* lines 210-229: the key, the url, the Request, the timeout
TinyfishConfigure ==
  /\ adapter = "tinyfish" /\ pc = "configure"
  /\ \E key \in KeyInputs :
       IF trim(key) = <<>>
         THEN /\ env' = SetKey(env, "TINYFISH_API_KEY", key)
              /\ fail(<<Lit("tinyfish plugin is not configured: missing api key")>>)
              /\ UNCHANGED request
       ELSE \E config \in ConfigInputs :
         LET base == config[1]
             timeout == config[2]
             b == IF trim(base) # <<>> THEN trim(base) ELSE TinyfishDefaultBase
             url == rstrip_slash(b) \o endpoint
         IN /\ env' = SetKey(SetKey(SetKey(env, "TINYFISH_API_KEY", key),
                                    "TINYFISH_BASE_URL", base), "TINYFISH_TIMEOUT_SEC", timeout)
            /\ IF ~HasScheme(url)
                 THEN Uncaught("ValueError: unknown url type") /\ UNCHANGED request
               ELSE IF trim(timeout) # <<>> /\ ~IsFloatLiteral(trim(timeout))
                 THEN Uncaught("ValueError: could not convert string to float")
                        /\ UNCHANGED request
               ELSE Continue("dispatch") /\ request' = [url |-> url, body |-> body]
  /\ UNCHANGED <<adapter, stdin, approval, payload, action, norm, async_mode, endpoint, body,
                 sent, response, response_text, bytes_read>>

\* status=<status> message=<parse_error_message(text)>, or the AttributeError
\* parse_error_message raises, which nothing around the two calls catches
TinyfishFailStatus(status, text) ==
  IF parse_error_message(text).raised
    THEN Uncaught("AttributeError: object has no attribute 'get'")
  ELSE fail(<<Lit("tinyfish request failed: status="), Var(Text(Digits(status))),
              Lit(" message=")>> \o parse_error_message(text).parts)

\* lines 230-238: urlopen, and read(MAX_BODY_BYTES)
TinyfishDispatch ==
  /\ adapter = "tinyfish" /\ pc = "dispatch"
  /\ sent' = Append(sent, request)
  /\ \E r \in DispatchResults :
       LET got == IF r.kind = "transport" THEN Text(<<>>) ELSE read(r.body, MAX_BODY_BYTES)
       IN /\ response' = r
          /\ bytes_read' = TextLen(got)
          /\ response_text' = got
          /\ IF r.kind = "http_error" THEN TinyfishFailStatus(r.status, got)
             ELSE IF r.kind = "transport"
               THEN fail(<<Lit("tinyfish request failed: "), Lit("<urlopen error>")>>)
             ELSE Continue("classify")
  /\ UNCHANGED <<adapter, stdin, env, approval, payload, action, norm, async_mode, endpoint,
                 body, request>>

\* lines 240-241
TinyfishClassify ==
  /\ adapter = "tinyfish" /\ pc = "classify"
  /\ IF response.status < 200 \/ response.status >= 300
       THEN TinyfishFailStatus(response.status, response_text)
     ELSE Continue("emit")
  /\ UNCHANGED <<adapter, stdin, env, approval, payload, action, norm, async_mode, endpoint,
                 body, request, sent, response, response_text, bytes_read>>

\* lines 243-245
TinyfishEmit ==
  /\ adapter = "tinyfish" /\ pc = "emit"
  /\ succeed(summarize_response(async_mode, response_text), "tinyfish_agentic_web")
  /\ UNCHANGED <<adapter, stdin, env, approval, payload, action, norm, async_mode, endpoint,
                 body, request, sent, response, response_text, bytes_read>>

\* ------------------------------------------------------------------ runs
Next ==
  \/ ResendParse
  \/ ResendNormalize
  \/ ResendBuild
  \/ ResendConfigure
  \/ ResendDispatch
  \/ ResendClassify
  \/ ResendEmit
  \/ TinyfishParse
  \/ TinyfishNormalize
  \/ TinyfishBuild
  \/ TinyfishConfigure
  \/ TinyfishDispatch
  \/ TinyfishClassify
  \/ TinyfishEmit

Spec == Init /\ [][Next]_vars

\* ------------------------------------------------------------ properties
Done == pc = "done"
TracebackHead == "Traceback (most recent call last):"
\* the run ended in an exception nothing caught
Crashed == Done /\ stderr # <<>> /\ stderr[Len(stderr)][1].lit = TracebackHead
\* the run ended in fail(message) with this literal first
FailedWith(lits) ==
  Done /\ exit_code = 1 /\ stderr # <<>> /\ stderr[Len(stderr)][1].lit \in lits
Answered == response.kind \in {"response", "http_error"}

InputErrors ==
  UNION {{name \o " plugin expected request JSON on stdin",
          name \o " plugin invalid stdin JSON: ",
          name \o " plugin missing action_approval object",
          name \o " plugin payload must be a JSON object"} : name \in {"resend", "tinyfish"}}
RecipientError == "resend_email requires payload.to or action target recipient email"
SenderError == "resend_email requires payload.from or RESEND_FROM env var"
BodyError == "resend_email requires payload.text or payload.html (or non-empty summary)"
GoalError == "tinyfish action requires payload.goal, payload.task, or summary"
UrlError == "tinyfish action requires payload.url, payload.request.url, or action_target"
ValidationErrors == {RecipientError, SenderError, BodyError, GoalError, UrlError}
ConfigErrors ==
  {"resend plugin missing RESEND_API_KEY", "tinyfish plugin is not configured: missing api key"}

\* the string form of a field, "" for a field that is missing or null
TextOf(v) == IF v.t = "null" THEN <<>> ELSE PyStr(v)
NonBlank(s) == \E i \in 1..Len(s) : s[i] \notin WS
\* the approval's field under either spelling of its key
Field(snake, camel) ==
  IF snake \in DOMAIN approval.m THEN approval.m[snake]
  ELSE IF camel \in DOMAIN approval.m THEN approval.m[camel] ELSE JNull

\* C1: every run ends in exactly one outcome, Success (one object on stdout,
\* exit code 0, nothing on stderr) or Failure (one line on stderr, exit code 1,
\* nothing on stdout), and nothing is written before the run ends.
C1_ExactlyOneOutcome ==
  IF Done
    THEN \/ exit_code = 0 /\ Len(stdout) = 1 /\ stderr = <<>>
         \/ exit_code = 1 /\ stdout = <<>> /\ Len(stderr) = 1 /\ LineCount(stderr[1]) = 1
  ELSE stdout = <<>> /\ stderr = <<>> /\ exit_code = -1

\* C2: a run that fails with an input, validation or configuration error has
\* made no network call.
C2_NoCallBeforeChecksPass ==
  FailedWith(InputErrors \cup ValidationErrors \cup ConfigErrors) => sent = <<>>

\* a run stopped by the missing key after its request body was built
C2_Witness ==
  /\ FailedWith(ConfigErrors)
  /\ body # JNull
  /\ sent = <<>>

\* a value that is not empty: a string with more than blanks in it, a list or
\* an object with an element, a number, a boolean
NonEmptyValue(v) ==
  CASE v.t = "null" -> FALSE
    [] v.t = "str" -> NonBlank(v.s)
    [] v.t = "list" -> v.items # <<>>
    [] v.t = "dict" -> DOMAIN v.m # {}
    [] OTHER -> TRUE

EmailFieldsPresent(b) ==
  /\ {"from", "to", "subject"} \subseteq DOMAIN b.m
  /\ IsStr(b.m["from"]) /\ NonBlank(b.m["from"].s)
  /\ IsList(b.m["to"]) /\ b.m["to"].items # <<>>
  /\ \A i \in 1..Len(b.m["to"].items) :
       IsStr(b.m["to"].items[i]) /\ NonBlank(b.m["to"].items[i].s)
  /\ IsStr(b.m["subject"])
  /\ \E k \in {"text", "html"} \cap DOMAIN b.m : IsStr(b.m[k]) /\ NonBlank(b.m[k].s)

AutomationFieldsPresent(b) ==
  /\ {"goal", "url"} \subseteq DOMAIN b.m
  /\ NonEmptyValue(b.m["goal"])
  /\ NonEmptyValue(b.m["url"])

\* C3: every request dispatched carries each required field with a non-empty
\* value (email: from, to, subject, text or html; automation: goal, url).
C3_RequiredFieldsSent ==
  \A i \in 1..Len(sent) :
     IF adapter = "resend" THEN EmailFieldsPresent(sent[i].body)
     ELSE AutomationFieldsPresent(sent[i].body)

\* whether a payload.to, or a target string, names at least one recipient
NamesRecipient(v) ==
  CASE v.t = "str" -> \E i \in 1..Len(v.s) : v.s[i] \notin WS \cup {","}
    [] v.t = "list" ->
         \E i \in 1..Len(v.items) : NonBlank(TextOf(v.items[i]))
    [] OTHER -> FALSE

RecipientPresent ==
  \/ NamesRecipient(Get(payload, "to"))
  \/ NamesRecipient(JStr(TextOf(Field("action_target", "ActionTarget"))))
SenderPresent ==
  \/ NonBlank(TextOf(Get(payload, "from")))
  \/ NonBlank(TextOf(Get(JDict(env), "RESEND_FROM")))
BodyPresent ==
  \/ NonBlank(TextOf(Get(payload, "text")))
  \/ NonBlank(TextOf(Get(payload, "html")))
  \/ NonBlank(TextOf(Field("action_summary", "ActionSummary")))

\* the email run is past normalization (lines 76-95 have run)
EmailNormalized == adapter = "resend" /\ IsDict(payload) /\ pc # "normalize"

\* C4: with recipient, sender and body all present the email run goes on to
\* build its request; with one absent it fails with that field's error (the
\* first absent one in the order recipient, sender, body).
C4_EmailNormalization ==
  EmailNormalized =>
    /\ ~RecipientPresent => FailedWith({RecipientError})
    /\ RecipientPresent /\ ~SenderPresent => FailedWith({SenderError})
    /\ RecipientPresent /\ SenderPresent /\ ~BodyPresent => FailedWith({BodyError})
    /\ RecipientPresent /\ SenderPresent /\ BodyPresent =>
         /\ ~FailedWith(ValidationErrors)
         /\ norm.to # <<>> /\ norm.from # <<>> /\ (norm.text # <<>> \/ norm.html # <<>>)

\* normalized with the recipient from action_target, the sender from
\* RESEND_FROM and the body from the summary
C4_Witness ==
  /\ EmailNormalized /\ pc = "build"
  /\ ~NamesRecipient(Get(payload, "to"))
  /\ ~NonBlank(TextOf(Get(payload, "from")))
  /\ ~NonBlank(TextOf(Get(payload, "text"))) /\ ~NonBlank(TextOf(Get(payload, "html")))
  /\ RecipientPresent /\ SenderPresent /\ BodyPresent

\* the text of the status in a message that names it
NamesStatus(msg, status) ==
  \E i \in 2..Len(msg) :
     /\ msg[i].text = Text(Digits(status))
     /\ msg[i - 1].lit \in {"resend request failed: status=",
                            "resend request failed: unexpected status ",
                            "tinyfish request failed: status="}

\* C5: once the provider has answered, the status alone decides: 2xx ends in
\* Success, any other status in a Failure whose message names the status.
C5_StatusDecides ==
  Done /\ Answered =>
    IF Is2xx(response.status)
      THEN exit_code = 0 /\ Len(stdout) = 1 /\ stderr = <<>>
    ELSE /\ exit_code = 1 /\ stdout = <<>> /\ Len(stderr) = 1
         /\ NamesStatus(stderr[1], response.status)

\* the three triggers of async mode, read off the approval
TypeTrigger == lower(strip(TextOf(Field("action_type", "ActionType")))) = Sentinel
FlagTrigger == Get(payload, "async") = JBool(TRUE)
ModeTrigger == lower(strip(TextOf(Get(payload, "mode")))) = AsyncWord

\* the automation run is past lines 198-203
AsyncDecided == adapter = "tinyfish" /\ IsDict(payload) /\ pc # "normalize"

EndsWith(s, suffix) ==
  Len(s) >= Len(suffix) /\ SubSeq(s, Len(s) - Len(suffix) + 1, Len(s)) = suffix

\* C6: async mode is true exactly when one of the three triggers holds, and
\* the path is /v1/automation/run-async exactly when async mode is true.
C6_AsyncMode ==
  AsyncDecided =>
    /\ async_mode = (TypeTrigger \/ FlagTrigger \/ ModeTrigger)
    /\ endpoint = IF async_mode THEN RunAsyncPath ELSE RunPath
    /\ \A i \in 1..Len(sent) :
         EndsWith(sent[i].url, <<"/", "r", "u", "n", "-", "a", "s", "y", "n", "c">>) = async_mode

\* a request sent to the async path on the strength of payload.mode alone
C6_Witness ==
  /\ AsyncDecided /\ sent # <<>>
  /\ ModeTrigger /\ ~TypeTrigger /\ ~FlagTrigger
  /\ async_mode

\* C7: reducing a response never raises: a run whose provider answered does
\* not end in an uncaught exception.
C7_ReductionNeverRaises == Answered => ~Crashed

\* whether a text holds two whitespace characters in a row, or one that is
\* not a plain space
HasRawWhitespace(t) ==
  LET Bad(s) == \E i \in 1..Len(s) :
                   /\ s[i] \in WS
                   /\ (s[i] # " " \/ (i < Len(s) /\ s[i + 1] \in WS))
  IN Bad(t.head) \/ Bad(t.tail)

\* the text a reducer took from the response body: the last part of the
\* message the run ended with
Extracted ==
  IF stdout # <<>> THEN stdout[1].message[Len(stdout[1].message)].text
  ELSE stderr[1][Len(stderr[1])].text

\* a reducer has turned a body that is no JSON (and not blank) into the message
ReducedNonJson ==
  /\ Done /\ Answered /\ ~Crashed
  /\ ~json_loads(response_text).ok
  /\ TextLen(text_strip(response_text)) > 0
  /\ adapter = "resend" => response.kind = "http_error"

\* C8: the message taken from a body that is no JSON is its text with every
\* run of whitespace collapsed to one space, cut to 1200 characters and "..."
\* when longer.
C8_NonJsonCompacted ==
  ReducedNonJson =>
    /\ ~HasRawWhitespace(Extracted)
    /\ TextLen(Extracted) <= CompactLimit + 3
    /\ TextLen(text_strip(response_text)) > CompactLimit + 3 =>
         EndsWith(Extracted.tail, <<".", ".", ".">>)

\* C9: at most MAX_BODY_BYTES bytes of a response body are read.
C9_ReadCapped == bytes_read <= MAX_BODY_BYTES

\* the first of the texts that is not blank, stripped; "" when all are blank
FirstNonBlank(texts) ==
  LET good == {i \in 1..Len(texts) : NonBlank(texts[i])}
  IN IF good = {} THEN <<>> ELSE strip(texts[CHOOSE i \in good : \A j \in good : i <= j])

ChainGoal ==
  FirstNonBlank(<<TextOf(Get(payload, "goal")), TextOf(Get(payload, "task")),
                  TextOf(Field("action_summary", "ActionSummary"))>>)
Target == strip(TextOf(Field("action_target", "ActionTarget")))
NestedGoal ==
  IF IsDict(Get(payload, "request")) THEN Get(Get(payload, "request"), "goal") ELSE JNull

\* the automation run is past build_request (lines 205-208)
GoalDecided == adapter = "tinyfish" /\ IsDict(payload) /\ pc \notin {"normalize", "build"}

\* C10 as stated: the goal sent is the first non-empty of payload.goal,
\* payload.task and action_summary, with "Target URL: <target>" appended when
\* the target is not a substring of it; with no source the run fails.
C10_GoalChainAsStated ==
  GoalDecided =>
    IF ChainGoal = <<>> THEN FailedWith({GoalError})
    ELSE body # JNull =>
           body.m["goal"] = JStr(IF Target # <<>> /\ ~Contains(ChainGoal, Target)
                                   THEN ChainGoal \o TargetLabel \o Target
                                 ELSE ChainGoal)

\* C10 amended: a payload.request.goal that is not blank is sent as it is;
\* otherwise the goal is the first non-empty of payload.goal, payload.task and
\* action_summary, with the target appended unless the goal holds it already,
\* letter case aside; with neither the run fails with the missing-goal error.
C10_GoalChain ==
  GoalDecided =>
    IF NonBlank(TextOf(NestedGoal)) THEN body # JNull => body.m["goal"] = NestedGoal
    ELSE IF ChainGoal = <<>> THEN FailedWith({GoalError})
    ELSE /\ ~FailedWith({GoalError})
         /\ body # JNull =>
              body.m["goal"] = JStr(IF Target # <<>> /\ ~Contains(lower(ChainGoal), lower(Target))
                                      THEN ChainGoal \o TargetLabel \o Target
                                    ELSE ChainGoal)

\* a request sent whose goal is the summary with the target appended
C10_Witness ==
  /\ GoalDecided /\ sent # <<>>
  /\ ~NonBlank(TextOf(NestedGoal))
  /\ ~NonBlank(TextOf(Get(payload, "goal"))) /\ ~NonBlank(TextOf(Get(payload, "task")))
  /\ Target # <<>>
  /\ sent[1].body.m["goal"] = JStr(ChainGoal \o TargetLabel \o Target)

=============================================================================
